---- MODULE Spec2Model ----
(***************************************************************************)
(* Model of the retry decorator (utils/exceptions.py retry_api_call), the  *)
(* Binance error classification table, the parameter validation and the    *)
(* BasicBot facade (bot/trading_bot.py) that is built on them.             *)
(*                                                                         *)
(* One wrapped call runs per thread.  The exchange client and the wrapped  *)
(* operation are the environment: each invocation's outcome is chosen      *)
(* nondeterministically from a bounded set.                                *)
(***************************************************************************)
EXTENDS Integers, Sequences, FiniteSets, TLC

\* ------------------------------------------------------------------ bounds
MaxRetriesCfg == 3      \* largest max_retries a decorator is configured with
MaxDelay == 2           \* largest initial delay
MaxBackoff == 2         \* largest backoff multiplier
MaxHint == 5            \* largest Retry-After header value

Threads == {1, 2}

\* ------------------------------------------------------- Python values
\* A Python value is None, a str or a number.
PyNone == [tag |-> "None", s |-> "", n |-> 0]
Str(x) == [tag |-> "str", s |-> x, n |-> 0]
Num(x) == [tag |-> "int", s |-> "", n |-> x]

IsNone(v) == v.tag = "None"
IsStr(v) == v.tag = "str"
IsNumber(v) == v.tag = "int"
Truthy(v) == CASE v.tag = "None" -> FALSE
               [] v.tag = "str" -> v.s # ""
               [] OTHER -> v.n # 0

\* str.upper() on the strings the model uses
upper(x) == CASE x = "btcusdt" -> "BTCUSDT"
              [] x = "buy" -> "BUY"
              [] x = "sell" -> "SELL"
              [] x = "hold" -> "HOLD"
              [] OTHER -> x

\* str.strip() on the strings the model uses
strip(x) == IF x = " " THEN "" ELSE x

Max(a, b) == IF a >= b THEN a ELSE b

\* ------------------------------------------------ outcomes of a function
NoHint == -1            \* the response carries no Retry-After header
NoCode == 1             \* error_code=None (exchange codes are never positive)

NoValue == [orderId |-> 0, symbols |-> {}, price |-> 0]

\* What one invocation of a function (or of an exchange-client method) does:
\* it returns a value or raises an exception of Python class cls.
Ok(v) == [type |-> "ok", cls |-> "", code |-> NoCode, hint |-> NoHint,
          field |-> "", fvalue |-> PyNone, order_id |-> PyNone,
          symbol |-> PyNone, value |-> v]
Exc(c) == [type |-> "raise", cls |-> c, code |-> NoCode, hint |-> NoHint,
           field |-> "", fvalue |-> PyNone, order_id |-> PyNone,
           symbol |-> PyNone, value |-> NoValue]
BinanceAPIException(c, h) == [Exc("BinanceAPIException") EXCEPT !.code = c, !.hint = h]
BinanceOrderException == Exc("BinanceOrderException")
NoException == [Exc("") EXCEPT !.type = "none"]

TradingBotClasses == {"TradingBotError", "ConnectionError", "InsufficientBalanceError",
                      "InvalidOrderError", "OrderPlacementError",
                      "OrderCancellationError", "RateLimitError", "MarketDataError",
                      "PrecisionError", "SymbolError"}

InvalidOrderError(f, v) == [Exc("InvalidOrderError") EXCEPT !.field = f, !.fvalue = v]
OrderCancellationError(oid, sym) ==
    [Exc("OrderCancellationError") EXCEPT !.order_id = oid, !.symbol = sym]

\* ------------------------------------------------- BINANCE_ERROR_MAP
GenericCodes == {-1000, -1006, -1014, -1016, -1020, -2016, -2020}
ConnectionCodes == {-1001, -1002, -1007, -1021, -1022, -1125, -2014, -2015}
RateLimitCodes == {-1003, -1008, -1015}
InvalidOrderCodes == {-1100, -1101, -1102, -1103, -1104, -1105, -1106,
                      -1114, -1115, -1116, -1117, -1118, -1119, -1120,
                      -1127, -1128, -1130, -1131, -2022}
InsufficientBalanceCodes == {-2010, -2018, -2019}
OrderCancellationCodes == {-2011, -2013, -2021}

TableCodes == GenericCodes \cup ConnectionCodes \cup RateLimitCodes
              \cup InvalidOrderCodes \cup InsufficientBalanceCodes
              \cup OrderCancellationCodes \cup {-1111, -1112, -1121}

\* BINANCE_ERROR_MAP.get(code, (TradingBotError, ...))[0]
BINANCE_ERROR_MAP(code) ==
    CASE code \in GenericCodes -> "TradingBotError"
      [] code \in ConnectionCodes -> "ConnectionError"
      [] code \in RateLimitCodes -> "RateLimitError"
      [] code \in InvalidOrderCodes -> "InvalidOrderError"
      [] code = -1111 -> "PrecisionError"
      [] code = -1112 -> "MarketDataError"
      [] code = -1121 -> "SymbolError"
      [] code \in InsufficientBalanceCodes -> "InsufficientBalanceError"
      [] code \in OrderCancellationCodes -> "OrderCancellationError"
      [] OTHER -> "TradingBotError"

UnknownCode == -9999
\* An exchange error whose code is the integer zero
ZeroCode == 0
\* Codes the environment raises that are not keys of the table
UnmappedCodes == {UnknownCode, ZeroCode}

\* ------------------------------------------------ validate_trading_params
valid_types == {"MARKET", "LIMIT", "STOP", "TAKE_PROFIT", "STOP_MARKET",
                "TAKE_PROFIT_MARKET"}

\* The outcome of validate_trading_params: Ok(NoValue) when it returns None,
\* otherwise the exception of the first check that fails.
validate_trading_params(symbol, side, quantity, price, order_type) ==
    IF ~IsNone(symbol) /\ (~IsStr(symbol) \/ strip(symbol.s) = "")
    THEN InvalidOrderError("symbol", symbol)
    ELSE IF ~IsNone(side) /\ ~IsStr(side)
    THEN Exc("AttributeError")
    ELSE IF ~IsNone(side) /\ upper(side.s) \notin {"BUY", "SELL"}
    THEN InvalidOrderError("side", side)
    ELSE IF ~IsNone(quantity) /\ (~IsNumber(quantity) \/ quantity.n <= 0)
    THEN InvalidOrderError("quantity", quantity)
    ELSE IF ~IsNone(price) /\ (~IsNumber(price) \/ price.n <= 0)
    THEN InvalidOrderError("price", price)
    ELSE IF ~IsNone(order_type) /\ upper(order_type.s) \notin valid_types
    THEN InvalidOrderError("order_type", order_type)
    ELSE Ok(NoValue)

\* ------------------------------------------------------- log entries
\* One entry of the logging sink: its kind and, for a trade, the order id.
Entry(k) == [kind |-> k, order_id |-> 0]
log_api_request == Entry("api-request")
log_error == Entry("error")
log_trade(oid) == [kind |-> "trade-executed", order_id |-> oid]

\* ------------------------------------------------------- BasicBot methods
NoArgs == [symbol |-> PyNone, side |-> PyNone, quantity |-> PyNone,
           price |-> PyNone, order_id |-> PyNone]

\* One call of an exchange-client method with its keyword arguments.
ClientCall(m, sym, sd, ty, q, p, oid) ==
    [method |-> m, symbol |-> sym, side |-> sd, type |-> ty, quantity |-> q,
     price |-> p, orderId |-> oid]

\* What one run of a method body does: its outcome, the exchange-client calls
\* it made and the log entries it emitted.  env is the outcome of the
\* exchange-client method, should the body reach it.
Ran(o, cs, ls) == [out |-> o, calls |-> cs, logs |-> ls]

\* A plausible slip: the except clause logs and re-raises, as the other
\* methods do.
test_connection_reraise(env1, env2) ==
    LET server_time == ClientCall("get_server_time", PyNone, PyNone, PyNone, PyNone,
                                  PyNone, PyNone)
        account == ClientCall("futures_account", PyNone, PyNone, PyNone, PyNone,
                              PyNone, PyNone)
    IN IF env1.type = "raise"
       THEN Ran(env1, <<server_time>>, <<log_api_request, log_error>>)
       ELSE IF env2.type = "raise"
       THEN Ran(env2, <<server_time, account>>,
                <<log_api_request, log_api_request, log_error>>)
       ELSE Ran(Ok(TRUE), <<server_time, account>>,
                <<log_api_request, log_api_request, Entry("info")>>)

\* test_connection(): env1 and env2 are the outcomes of get_server_time and
\* of futures_account.  It returns a bool.
test_connection(env1, env2) ==
    LET server_time == ClientCall("get_server_time", PyNone, PyNone, PyNone, PyNone,
                                  PyNone, PyNone)
        account == ClientCall("futures_account", PyNone, PyNone, PyNone, PyNone,
                              PyNone, PyNone)
    IN IF env1.type = "raise"
       THEN Ran(Ok(FALSE), <<server_time>>, <<log_api_request, log_error>>)
       ELSE IF env2.type = "raise"
       THEN Ran(Ok(FALSE), <<server_time, account>>,
                <<log_api_request, log_api_request, log_error>>)
       ELSE Ran(Ok(TRUE), <<server_time, account>>,
                <<log_api_request, log_api_request, Entry("info")>>)

get_account_balance(a, env) ==
    LET call == ClientCall("futures_account_balance", PyNone, PyNone, PyNone, PyNone,
                           PyNone, PyNone)
    IN IF env.type = "ok"
       THEN Ran(env, <<call>>, <<log_api_request, Entry("info")>>)
       ELSE Ran(env, <<call>>, <<log_api_request, log_error>>)

\* A plausible slip: the symbol goes to the exchange as the caller typed it.
place_market_order_verbatim(a, env) ==
    LET v == validate_trading_params(a.symbol, a.side, a.quantity, PyNone, Str("MARKET")) IN
    IF v.type = "raise" THEN Ran(v, <<>>, <<>>)
    ELSE IF ~IsStr(a.symbol) \/ ~IsStr(a.side) THEN Ran(Exc("AttributeError"), <<>>, <<>>)
    ELSE LET call == ClientCall("futures_create_order", a.symbol,
                                Str(upper(a.side.s)), Str("MARKET"), a.quantity,
                                PyNone, PyNone)
         IN IF env.type = "ok"
            THEN Ran(env, <<call>>,
                     <<log_api_request, log_trade(env.value.orderId), Entry("info")>>)
            ELSE Ran(env, <<call>>, <<log_api_request, log_error>>)

place_market_order(a, env) ==
    LET v == validate_trading_params(a.symbol, a.side, a.quantity, PyNone, Str("MARKET")) IN
    IF v.type = "raise" THEN Ran(v, <<>>, <<>>)
    ELSE IF ~IsStr(a.symbol) \/ ~IsStr(a.side) THEN Ran(Exc("AttributeError"), <<>>, <<>>)
    ELSE LET call == ClientCall("futures_create_order", Str(upper(a.symbol.s)),
                                Str(upper(a.side.s)), Str("MARKET"), a.quantity,
                                PyNone, PyNone)
         IN IF env.type = "ok"
            THEN Ran(env, <<call>>,
                     <<log_api_request, log_trade(env.value.orderId), Entry("info")>>)
            ELSE Ran(env, <<call>>, <<log_api_request, log_error>>)

place_limit_order(a, env) ==
    LET v == validate_trading_params(a.symbol, a.side, a.quantity, a.price, Str("LIMIT")) IN
    IF v.type = "raise" THEN Ran(v, <<>>, <<>>)
    ELSE IF ~IsStr(a.symbol) \/ ~IsStr(a.side) THEN Ran(Exc("AttributeError"), <<>>, <<>>)
    ELSE LET call == ClientCall("futures_create_order", Str(upper(a.symbol.s)),
                                Str(upper(a.side.s)), Str("LIMIT"), a.quantity,
                                a.price, PyNone)
         IN IF env.type = "ok"
            THEN Ran(env, <<call>>,
                     <<log_api_request, log_trade(env.value.orderId), Entry("info")>>)
            ELSE Ran(env, <<call>>, <<log_api_request, log_error>>)

\* A plausible slip: the symbol is validated after the exchange was queried.
get_open_orders_late(a, env) ==
    LET v == validate_trading_params(a.symbol, PyNone, PyNone, PyNone, PyNone)
        call == ClientCall("futures_get_open_orders",
                           IF Truthy(a.symbol) THEN Str(upper(a.symbol.s)) ELSE PyNone,
                           PyNone, PyNone, PyNone, PyNone, PyNone)
    IN IF env.type = "raise"
       THEN Ran(env, <<call>>, <<log_api_request, log_error>>)
       ELSE IF Truthy(a.symbol) /\ v.type = "raise"
       THEN Ran(v, <<call>>, <<log_api_request, log_error>>)
       ELSE Ran(env, <<call>>, <<log_api_request, Entry("info")>>)

get_open_orders(a, env) ==
    LET v == validate_trading_params(a.symbol, PyNone, PyNone, PyNone, PyNone)
        call == ClientCall("futures_get_open_orders",
                           IF Truthy(a.symbol) THEN Str(upper(a.symbol.s)) ELSE PyNone,
                           PyNone, PyNone, PyNone, PyNone, PyNone)
    IN IF Truthy(a.symbol) /\ v.type = "raise"
       THEN Ran(v, <<>>, <<log_api_request, log_error>>)
       ELSE IF env.type = "ok"
       THEN Ran(env, <<call>>, <<log_api_request, Entry("info")>>)
       ELSE Ran(env, <<call>>, <<log_api_request, log_error>>)

\* A plausible slip: the client's exception is re-raised as it is, as the
\* other methods do.
cancel_order_reraise(a, env) ==
    LET v == validate_trading_params(a.symbol, PyNone, PyNone, PyNone, PyNone)
        call == ClientCall("futures_cancel_order", Str(upper(a.symbol.s)), PyNone,
                           PyNone, PyNone, PyNone, a.order_id)
    IN IF ~Truthy(a.symbol) \/ ~Truthy(a.order_id)
       THEN Ran(InvalidOrderError("", PyNone), <<>>, <<>>)
       ELSE IF v.type = "raise" THEN Ran(v, <<>>, <<>>)
       ELSE IF env.type = "ok"
       THEN Ran(env, <<call>>, <<log_api_request, Entry("info")>>)
       ELSE Ran(env, <<call>>, <<log_api_request, log_error>>)

cancel_order(a, env) ==
    LET v == validate_trading_params(a.symbol, PyNone, PyNone, PyNone, PyNone)
        call == ClientCall("futures_cancel_order", Str(upper(a.symbol.s)), PyNone,
                           PyNone, PyNone, PyNone, a.order_id)
    IN IF ~Truthy(a.symbol) \/ ~Truthy(a.order_id)
       THEN Ran(InvalidOrderError("", PyNone), <<>>, <<>>)
       ELSE IF v.type = "raise" THEN Ran(v, <<>>, <<>>)
       ELSE IF env.type = "ok"
       THEN Ran(env, <<call>>, <<log_api_request, Entry("info")>>)
       ELSE Ran(OrderCancellationError(a.order_id, a.symbol), <<call>>,
                <<log_api_request, log_error>>)

get_symbol_info(a, env) ==
    LET v == validate_trading_params(a.symbol, PyNone, PyNone, PyNone, PyNone)
        call == ClientCall("futures_exchange_info", PyNone, PyNone, PyNone, PyNone,
                           PyNone, PyNone)
    IN IF v.type = "raise" THEN Ran(v, <<>>, <<>>)
       ELSE IF env.type = "raise"
       THEN Ran(env, <<call>>, <<log_api_request, log_error>>)
       ELSE IF env.value.symbols = {}
       THEN Ran(InvalidOrderError("", PyNone), <<call>>, <<log_api_request, log_error>>)
       ELSE IF ~IsStr(a.symbol)
       THEN Ran(Exc("AttributeError"), <<call>>, <<log_api_request, log_error>>)
       ELSE IF upper(a.symbol.s) \in env.value.symbols
       THEN Ran(Ok([NoValue EXCEPT !.symbols = {upper(a.symbol.s)}]), <<call>>,
                <<log_api_request, Entry("info")>>)
       ELSE Ran(InvalidOrderError("", PyNone), <<call>>, <<log_api_request, log_error>>)

get_current_price(a, env) ==
    LET v == validate_trading_params(a.symbol, PyNone, PyNone, PyNone, PyNone) IN
    IF v.type = "raise" THEN Ran(v, <<>>, <<>>)
    ELSE IF ~IsStr(a.symbol)
    THEN Ran(Exc("AttributeError"), <<>>, <<log_api_request, log_error>>)
    ELSE LET call == ClientCall("futures_symbol_ticker", Str(upper(a.symbol.s)), PyNone,
                                PyNone, PyNone, PyNone, PyNone)
         IN IF env.type = "ok"
            THEN Ran(Ok([NoValue EXCEPT !.price = env.value.price]), <<call>>,
                     <<log_api_request, Entry("info")>>)
            ELSE Ran(env, <<call>>, <<log_api_request, log_error>>)

\* func(*args, **kwargs): the decorated function.  "op" is an arbitrary wrapped
\* operation whose outcome is the environment's choice.
func(f, a, env) ==
    CASE f = "get_account_balance" -> get_account_balance(a, env)
      [] f = "place_market_order" -> place_market_order(a, env)
      [] f = "place_limit_order" -> place_limit_order(a, env)
      [] f = "get_open_orders" -> get_open_orders(a, env)
      [] f = "cancel_order" -> cancel_order(a, env)
      [] f = "get_symbol_info" -> get_symbol_info(a, env)
      [] f = "get_current_price" -> get_current_price(a, env)
      [] OTHER -> Ran(env, <<>>, <<>>)

\* ------------------------------------------------------- call results
\* How a call ends for its caller: a returned value or a raised exception
\* with the attributes the claims read.
Return(v) == [kind |-> "return", cls |-> "", error_code |-> NoCode, msg |-> "",
              field |-> "", fvalue |-> PyNone, order_id |-> PyNone,
              symbol |-> PyNone, retry_after |-> NoHint, value |-> v]

\* raise cls(message, error_code=code): every other attribute keeps its
\* default (field=None, retry_after=None, ...).
Raise(c, code, m) == [kind |-> "raise", cls |-> c, error_code |-> code, msg |-> m,
                      field |-> "", fvalue |-> PyNone, order_id |-> PyNone,
                      symbol |-> PyNone, retry_after |-> NoHint, value |-> NoValue]

\* A plausible slip: the exception is rebuilt from its message and loses its
\* structured attributes.
Propagate_rebuilt(o) == [kind |-> "raise", cls |-> o.cls, error_code |-> o.code,
                         msg |-> "e.message", field |-> "", fvalue |-> PyNone,
                         order_id |-> PyNone, symbol |-> PyNone,
                         retry_after |-> NoHint, value |-> NoValue]

\* bare raise / an exception that propagates: the object the function raised
Propagate(o) == [kind |-> "raise", cls |-> o.cls, error_code |-> o.code,
                 msg |-> "e.message", field |-> o.field, fvalue |-> o.fvalue,
                 order_id |-> o.order_id, symbol |-> o.symbol,
                 retry_after |-> NoHint, value |-> NoValue]

\* TradingBotError.__str__: "[error_code] message" when error_code is truthy,
\* else the message alone.  The rendering is kept as its two parts.
TradingBotError_str(e) ==
    IF e.error_code # NoCode /\ e.error_code # 0
    THEN [code |-> e.error_code, message |-> e.msg]
    ELSE [code |-> NoCode, message |-> e.msg]

NoResult == [Return(NoValue) EXCEPT !.kind = "none"]

\* ------------------------------------------------------- retry_api_call
\* exceptions=None means (Exception,): every exception class is caught.
isinstance(c, exceptions) == "Exception" \in exceptions \/ c \in exceptions

\* What the try/except of one loop iteration does with the function's outcome
\* o, at the given retries and current_delay: return, raise, or fall through
\* to the retry bookkeeping ("continue") with a possibly raised current_delay.
Step(act, res, cd, ls) == [act |-> act, res |-> res, current_delay |-> cd, logs |-> ls]

\* A plausible slip: the parameter codes are raised as InvalidOrderError
\* instead of the class the table gives.
except_BinanceAPIException_literal(c, retries, current_delay, o) ==
    LET exception_class == BINANCE_ERROR_MAP(o.code)
        retry_after == IF o.hint = NoHint THEN current_delay ELSE o.hint
    IN IF o.code = -1003
       THEN Step("continue", NoResult, Max(current_delay, retry_after),
                 <<Entry("warning")>>)
       ELSE IF o.code = -1021
       THEN Step("continue", NoResult, current_delay, <<Entry("warning")>>)
       ELSE IF o.code \in {-2010, -2018}
       THEN Step("raise", Raise("InsufficientBalanceError", o.code, "e.message"),
                 current_delay, <<>>)
       ELSE IF o.code \in {-1111, -1115, -1116, -1117, -1121}
       THEN Step("raise", Raise("InvalidOrderError", o.code, "e.message"),
                 current_delay, <<>>)
       ELSE IF retries = c.max_retries - 1
       THEN Step("raise", Raise(exception_class, o.code, "e.message"),
                 current_delay, <<Entry("error")>>)
       ELSE Step("continue", NoResult, current_delay, <<Entry("error")>>)

\* A plausible slip: the Retry-After value replaces the current delay.
except_BinanceAPIException_hint(c, retries, current_delay, o) ==
    LET exception_class == BINANCE_ERROR_MAP(o.code)
        retry_after == IF o.hint = NoHint THEN current_delay ELSE o.hint
    IN IF o.code = -1003
       THEN Step("continue", NoResult, retry_after,
                 <<Entry("warning")>>)
       ELSE IF o.code = -1021
       THEN Step("continue", NoResult, current_delay, <<Entry("warning")>>)
       ELSE IF o.code \in {-2010, -2018}
       THEN Step("raise", Raise("InsufficientBalanceError", o.code, "e.message"),
                 current_delay, <<>>)
       ELSE IF o.code \in {-1111, -1115, -1116, -1117, -1121}
       THEN Step("raise", Raise(exception_class, o.code, "e.message"),
                 current_delay, <<>>)
       ELSE IF retries = c.max_retries - 1
       THEN Step("raise", Raise(exception_class, o.code, "e.message"),
                 current_delay, <<Entry("error")>>)
       ELSE Step("continue", NoResult, current_delay, <<Entry("error")>>)

\* except BinanceAPIException as e
except_BinanceAPIException(c, retries, current_delay, o) ==
    LET exception_class == BINANCE_ERROR_MAP(o.code)
        retry_after == IF o.hint = NoHint THEN current_delay ELSE o.hint
    IN IF o.code = -1003
       THEN Step("continue", NoResult, Max(current_delay, retry_after),
                 <<Entry("warning")>>)
       ELSE IF o.code = -1021
       THEN Step("continue", NoResult, current_delay, <<Entry("warning")>>)
       ELSE IF o.code \in {-2010, -2018}
       THEN Step("raise", Raise("InsufficientBalanceError", o.code, "e.message"),
                 current_delay, <<>>)
       ELSE IF o.code \in {-1111, -1115, -1116, -1117, -1121}
       THEN Step("raise", Raise(exception_class, o.code, "e.message"),
                 current_delay, <<>>)
       ELSE IF retries = c.max_retries - 1
       THEN Step("raise", Raise(exception_class, o.code, "e.message"),
                 current_delay, <<Entry("error")>>)
       ELSE Step("continue", NoResult, current_delay, <<Entry("error")>>)


\* A plausible slip: the order exception is logged and retried like the others.
except_BinanceOrderException_retried(current_delay) ==
    Step("continue", NoResult, current_delay, <<Entry("error")>>)

\* except BinanceOrderException as e
except_BinanceOrderException(current_delay) ==
    Step("raise", Raise("OrderPlacementError", NoCode, "Order failed: e.message"),
         current_delay, <<Entry("error")>>)

\* A plausible slip: the generic handler gives up on the first failure.
except_exceptions_eager(c, retries, current_delay, o) ==
    IF o.cls \in TradingBotClasses
    THEN Step("raise", Propagate(o), current_delay, <<Entry("error")>>)
    ELSE Step("raise", Raise("ConnectionError", NoCode,
                             "Connection failed after retries: str(e)"),
              current_delay, <<Entry("error")>>)

\* except exceptions as e
except_exceptions(c, retries, current_delay, o) ==
    IF retries = c.max_retries - 1
    THEN IF o.cls \in TradingBotClasses
         THEN Step("raise", Propagate(o), current_delay, <<Entry("error")>>)
         ELSE Step("raise", Raise("ConnectionError", NoCode,
                                  "Connection failed after retries: str(e)"),
                   current_delay, <<Entry("error")>>)
    ELSE Step("continue", NoResult, current_delay, <<Entry("error")>>)

\* try: return func(*args, **kwargs), with its except clauses in order; an
\* exception no clause matches leaves the wrapper as it is.
wrapper_try(c, retries, current_delay, o) ==
    IF o.type = "ok" THEN Step("return", Return(o.value), current_delay, <<>>)
    ELSE IF o.cls = "BinanceAPIException"
    THEN except_BinanceAPIException(c, retries, current_delay, o)
    ELSE IF o.cls = "BinanceOrderException"
    THEN except_BinanceOrderException(current_delay)
    ELSE IF isinstance(o.cls, c.exceptions)
    THEN except_exceptions(c, retries, current_delay, o)
    ELSE Step("raise", Propagate(o), current_delay, <<>>)

\* A plausible slip: the error after the loop is always the generic one.
wrapper_exhausted_generic(last_exception) ==
    Raise("TradingBotError", NoCode, "Max retries exceeded")

\* A plausible slip: the final else is missing, so a call that attempted
\* nothing falls off the end of wrapper and returns None.
wrapper_exhausted_falls(last_exception) ==
    IF last_exception.type # "none"
    THEN IF last_exception.cls = "BinanceAPIException"
         THEN Raise(BINANCE_ERROR_MAP(last_exception.code), last_exception.code,
                    "Max retries exceeded: e.message")
         ELSE Raise("ConnectionError", NoCode, "Max retries exceeded: str(e)")
    ELSE Return(NoValue)

\* The code after the while loop: all retries failed.
wrapper_exhausted(last_exception) ==
    IF last_exception.type # "none"
    THEN IF last_exception.cls = "BinanceAPIException"
         THEN Raise(BINANCE_ERROR_MAP(last_exception.code), last_exception.code,
                    "Max retries exceeded: e.message")
         ELSE Raise("ConnectionError", NoCode, "Max retries exceeded: str(e)")
    ELSE Raise("ConnectionError", NoCode, "Max retries exceeded")

\* ------------------------------------------------- handle_binance_error
\* A plausible slip: the table is not consulted and every exchange error
\* becomes the generic kind.
handle_binance_error_unmapped(error) ==
    IF error.cls = "BinanceAPIException"
    THEN Raise("TradingBotError", error.code, "error.message")
    ELSE IF error.cls = "BinanceOrderException"
    THEN Raise("OrderPlacementError", NoCode, "Order error: error.message")
    ELSE Raise("TradingBotError", NoCode, "Unexpected error: str(error)")

\* handle_binance_error(error): always raises
handle_binance_error(error) ==
    IF error.cls = "BinanceAPIException"
    THEN Raise(BINANCE_ERROR_MAP(error.code), error.code, "error.message")
    ELSE IF error.cls = "BinanceOrderException"
    THEN Raise("OrderPlacementError", NoCode, "Order error: error.message")
    ELSE Raise("TradingBotError", NoCode, "Unexpected error: str(error)")

\* ------------------------------------------------------- inputs
\* Decorator arguments of the BasicBot methods: @retry_api_call(max_retries=3,
\* delay=1), backoff and exceptions left at their defaults.
FacadeMaxRetries == 3
FacadeDelay == 1
DefaultBackoff == 2
DefaultExceptions == {"Exception"}
FacadeCfg == [max_retries |-> FacadeMaxRetries, delay |-> FacadeDelay,
              backoff |-> DefaultBackoff, exceptions |-> DefaultExceptions]

OpConfigs == [max_retries : (-1)..MaxRetriesCfg, delay : 1..MaxDelay,
              backoff : 1..MaxBackoff,
              exceptions : {DefaultExceptions, {"TimeoutError"}}]

WrappedMethods == {"get_account_balance", "place_market_order", "place_limit_order",
                   "get_open_orders", "cancel_order", "get_symbol_info"}

Symbols == {PyNone, Str(""), Str(" "), Str("btcusdt"), Str("BTCUSDT"), Num(7)}
Sides == {PyNone, Str("buy"), Str("SELL"), Str("hold")}
Quantities == {PyNone, Num(-1), Num(0), Num(1)}
Prices == {PyNone, Num(0), Num(2)}
OrderIds == {PyNone, Num(0), Num(42)}

ArgsOf(f) ==
    CASE f = "place_market_order" ->
           {[NoArgs EXCEPT !.symbol = sy, !.side = sd, !.quantity = q] :
              sy \in Symbols, sd \in Sides, q \in Quantities}
      [] f = "place_limit_order" ->
           {[NoArgs EXCEPT !.symbol = x[1], !.side = x[2], !.quantity = x[3],
                           !.price = x[4]] :
              x \in Symbols \X Sides \X Quantities \X Prices}
      [] f = "cancel_order" ->
           {[NoArgs EXCEPT !.symbol = sy, !.order_id = oid] :
              sy \in Symbols, oid \in OrderIds}
      [] f \in {"get_open_orders", "get_symbol_info", "get_current_price"} ->
           {[NoArgs EXCEPT !.symbol = sy] : sy \in Symbols}
      [] OTHER -> {NoArgs}

Hints == {NoHint, 1, MaxHint}
Responses == {[orderId |-> 123, symbols |-> {"BTCUSDT"}, price |-> 50000],
              [orderId |-> 456, symbols |-> {}, price |-> 7]}

\* Outcomes of the first invocation of an arbitrary wrapped operation: every
\* code of the table, an unknown code, a Retry-After header on the rate-limit
\* codes, an order exception, other exceptions and a TradingBotError.
OpFirstOutcomes ==
    {Ok(v) : v \in Responses}
    \cup {BinanceAPIException(c, NoHint) : c \in TableCodes \cup UnmappedCodes}
    \cup {BinanceAPIException(c, h) : c \in RateLimitCodes, h \in Hints}
    \cup {BinanceOrderException, Exc("TimeoutError"), Exc("ValueError"),
          InvalidOrderError("quantity", Num(-1))}

\* Outcomes of the first call of an exchange-client method by a BasicBot method
ClientFirstOutcomes ==
    {Ok(v) : v \in Responses}
    \cup {BinanceAPIException(-1003, MaxHint), BinanceAPIException(-1121, NoHint),
          BinanceAPIException(-2019, NoHint), BinanceAPIException(UnknownCode, NoHint),
          BinanceOrderException, Exc("TimeoutError")}

\* Outcomes a later invocation may switch to (it may also repeat the previous one)
MixOutcomes ==
    {Ok(CHOOSE v \in Responses : v.orderId = 123),
     BinanceAPIException(-1003, MaxHint), BinanceAPIException(-1001, NoHint),
     BinanceAPIException(-1117, NoHint), BinanceOrderException, Exc("TimeoutError")}

\* ------------------------------------------------------- state
VARIABLES pc, fn, cfg, args, retries, current_delay, last_exception,
          attempts, sleeps, result, clientCalls, log

vars == <<pc, fn, cfg, args, retries, current_delay, last_exception,
          attempts, sleeps, result, clientCalls, log>>

\* pc[t]              where thread t's call stands: "idle", "ATTEMPTING" (about
\*                    to invoke the function), "RETRY_WAIT" (in time.sleep),
\*                    "SUCCESS" (returned), "TERMINAL_FAILURE" (raised)
\* fn, cfg, args      the function called, its decorator arguments, its arguments
\* retries, current_delay, last_exception   the wrapper's locals
\* attempts[t]        per invocation of the function: the environment's outcome
\*                    (env) and the function's outcome (out)
\* sleeps[t]          the durations passed to time.sleep, in order
\* result[t]          what the caller gets
\* clientCalls        the calls made to the exchange client (shared client)
\* log                the entries written to the logging sink (shared sink)

Init ==
    /\ pc = [t \in Threads |-> "idle"]
    /\ fn = [t \in Threads |-> ""]
    /\ cfg = [t \in Threads |-> FacadeCfg]
    /\ args = [t \in Threads |-> NoArgs]
    /\ retries = [t \in Threads |-> 0]
    /\ current_delay = [t \in Threads |-> 0]
    /\ last_exception = [t \in Threads |-> NoException]
    /\ attempts = [t \in Threads |-> <<>>]
    /\ sleeps = [t \in Threads |-> <<>>]
    /\ result = [t \in Threads |-> NoResult]
    /\ clientCalls = <<>>
    /\ log = <<>>

\* Does the body of f reach the exchange client with these arguments?
ReachesClient(f, a) == f = "op" \/ func(f, a, Ok(NoValue)).calls # <<>>

\* The outcomes the environment may give the next invocation of thread t
EnvChoices(t) ==
    IF ~ReachesClient(fn[t], args[t]) THEN {NoException}
    ELSE IF attempts[t] = <<>>
    THEN IF fn[t] = "op" THEN OpFirstOutcomes ELSE ClientFirstOutcomes
    ELSE {attempts[t][Len(attempts[t])].env} \cup MixOutcomes

Tag(t, n, entries) == [i \in 1..Len(entries) |->
                         [t |-> t, attempt |-> n, kind |-> entries[i].kind,
                          order_id |-> entries[i].order_id]]
TagCalls(t, n, calls) == [i \in 1..Len(calls) |-> [t |-> t, attempt |-> n, call |-> calls[i]]]


\* A plausible slip: the loop condition is retries <= max_retries.
Enter_inclusive(t, f, c, a) ==
    /\ pc[t] = "idle"
    /\ fn' = [fn EXCEPT ![t] = f]
    /\ cfg' = [cfg EXCEPT ![t] = c]
    /\ args' = [args EXCEPT ![t] = a]
    /\ retries' = [retries EXCEPT ![t] = 0]
    /\ current_delay' = [current_delay EXCEPT ![t] = c.delay]
    /\ last_exception' = [last_exception EXCEPT ![t] = NoException]
    /\ IF 0 <= c.max_retries
       THEN /\ pc' = [pc EXCEPT ![t] = "ATTEMPTING"]
            /\ UNCHANGED result
       ELSE /\ pc' = [pc EXCEPT ![t] = "TERMINAL_FAILURE"]
            /\ result' = [result EXCEPT ![t] = wrapper_exhausted(NoException)]
    /\ UNCHANGED <<attempts, sleeps, clientCalls, log>>

\* wrapper(*args, **kwargs) is entered: the locals are initialised and the
\* while condition is evaluated for the first time.
Enter(t, f, c, a) ==
    /\ pc[t] = "idle"
    /\ fn' = [fn EXCEPT ![t] = f]
    /\ cfg' = [cfg EXCEPT ![t] = c]
    /\ args' = [args EXCEPT ![t] = a]
    /\ retries' = [retries EXCEPT ![t] = 0]
    /\ current_delay' = [current_delay EXCEPT ![t] = c.delay]
    /\ last_exception' = [last_exception EXCEPT ![t] = NoException]
    /\ IF 0 < c.max_retries
       THEN /\ pc' = [pc EXCEPT ![t] = "ATTEMPTING"]
            /\ UNCHANGED result
       ELSE /\ pc' = [pc EXCEPT ![t] = "TERMINAL_FAILURE"]
            /\ result' = [result EXCEPT ![t] = wrapper_exhausted(NoException)]
    /\ UNCHANGED <<attempts, sleeps, clientCalls, log>>

\* A call of an arbitrary operation decorated with retry_api_call(...)
CallOp(t) == \E c \in OpConfigs : Enter(t, "op", c, NoArgs)

\* A call of one of the decorated BasicBot methods
CallFacade(t) == \E f \in WrappedMethods : \E a \in ArgsOf(f) : Enter(t, f, FacadeCfg, a)

\* A plausible slip: the attempt counter is one variable shared by all calls
\* (a closure variable of the decorator instead of a local of wrapper).
AttemptWith_shared(t, env, ran) ==
    /\ pc[t] = "ATTEMPTING"
    /\   LET n == Len(attempts[t]) + 1
             o == ran.out
             st == wrapper_try(cfg[t], retries[t], current_delay[t], o)
             handled == o.type = "raise"
                        /\ (o.cls \in {"BinanceAPIException", "BinanceOrderException"}
                            \/ isinstance(o.cls, cfg[t].exceptions))
             le == IF handled THEN o ELSE last_exception[t]
             again == retries[t] + 1 < cfg[t].max_retries
         IN /\ attempts' = [attempts EXCEPT ![t] = Append(@, [env |-> env, out |-> o])]
            /\ clientCalls' = clientCalls \o TagCalls(t, n, ran.calls)
            /\ last_exception' = [last_exception EXCEPT ![t] = le]
            /\ current_delay' = [current_delay EXCEPT ![t] = st.current_delay]
            /\ IF st.act = "return"
               THEN /\ pc' = [pc EXCEPT ![t] = "SUCCESS"]
                    /\ result' = [result EXCEPT ![t] = st.res]
                    /\ log' = log \o Tag(t, n, ran.logs \o st.logs)
                    /\ UNCHANGED <<retries, sleeps>>
               ELSE IF st.act = "raise"
               THEN /\ pc' = [pc EXCEPT ![t] = "TERMINAL_FAILURE"]
                    /\ result' = [result EXCEPT ![t] = st.res]
                    /\ log' = log \o Tag(t, n, ran.logs \o st.logs)
                    /\ UNCHANGED <<retries, sleeps>>
               ELSE /\ retries' = [u \in Threads |-> retries[u] + 1]
                    /\ IF again
                       THEN /\ pc' = [pc EXCEPT ![t] = "RETRY_WAIT"]
                            /\ sleeps' = [sleeps EXCEPT ![t] = Append(@, st.current_delay)]
                            /\ log' = log \o Tag(t, n, ran.logs \o st.logs
                                                       \o <<Entry("info")>>)
                            /\ UNCHANGED result
                       ELSE /\ pc' = [pc EXCEPT ![t] = "TERMINAL_FAILURE"]
                            /\ result' = [result EXCEPT ![t] = wrapper_exhausted(le)]
                            /\ log' = log \o Tag(t, n, ran.logs \o st.logs)
                            /\ UNCHANGED sleeps
    /\ UNCHANGED <<fn, cfg, args>>

\* A plausible slip: last_exception keeps the first exception of the call.
AttemptWith_first(t, env, ran) ==
    /\ pc[t] = "ATTEMPTING"
    /\   LET n == Len(attempts[t]) + 1
             o == ran.out
             st == wrapper_try(cfg[t], retries[t], current_delay[t], o)
             handled == o.type = "raise"
                        /\ (o.cls \in {"BinanceAPIException", "BinanceOrderException"}
                            \/ isinstance(o.cls, cfg[t].exceptions))
             le == IF handled /\ last_exception[t].type = "none" THEN o
                   ELSE last_exception[t]
             again == retries[t] + 1 < cfg[t].max_retries
         IN /\ attempts' = [attempts EXCEPT ![t] = Append(@, [env |-> env, out |-> o])]
            /\ clientCalls' = clientCalls \o TagCalls(t, n, ran.calls)
            /\ last_exception' = [last_exception EXCEPT ![t] = le]
            /\ current_delay' = [current_delay EXCEPT ![t] = st.current_delay]
            /\ IF st.act = "return"
               THEN /\ pc' = [pc EXCEPT ![t] = "SUCCESS"]
                    /\ result' = [result EXCEPT ![t] = st.res]
                    /\ log' = log \o Tag(t, n, ran.logs \o st.logs)
                    /\ UNCHANGED <<retries, sleeps>>
               ELSE IF st.act = "raise"
               THEN /\ pc' = [pc EXCEPT ![t] = "TERMINAL_FAILURE"]
                    /\ result' = [result EXCEPT ![t] = st.res]
                    /\ log' = log \o Tag(t, n, ran.logs \o st.logs)
                    /\ UNCHANGED <<retries, sleeps>>
               ELSE /\ retries' = [retries EXCEPT ![t] = @ + 1]
                    /\ IF again
                       THEN /\ pc' = [pc EXCEPT ![t] = "RETRY_WAIT"]
                            /\ sleeps' = [sleeps EXCEPT ![t] = Append(@, st.current_delay)]
                            /\ log' = log \o Tag(t, n, ran.logs \o st.logs
                                                       \o <<Entry("info")>>)
                            /\ UNCHANGED result
                       ELSE /\ pc' = [pc EXCEPT ![t] = "TERMINAL_FAILURE"]
                            /\ result' = [result EXCEPT ![t] = wrapper_exhausted(le)]
                            /\ log' = log \o Tag(t, n, ran.logs \o st.logs)
                            /\ UNCHANGED sleeps
    /\ UNCHANGED <<fn, cfg, args>>

\* One iteration of the while loop: invoke the function, handle its outcome,
\* and either return, raise, start sleeping before the next iteration, or
\* leave the loop and raise the "Max retries exceeded" error.
AttemptWith(t, env, ran) ==
    /\ pc[t] = "ATTEMPTING"
    /\   LET n == Len(attempts[t]) + 1
             o == ran.out
             st == wrapper_try(cfg[t], retries[t], current_delay[t], o)
             handled == o.type = "raise"
                        /\ (o.cls \in {"BinanceAPIException", "BinanceOrderException"}
                            \/ isinstance(o.cls, cfg[t].exceptions))
             le == IF handled THEN o ELSE last_exception[t]
             again == retries[t] + 1 < cfg[t].max_retries
         IN /\ attempts' = [attempts EXCEPT ![t] = Append(@, [env |-> env, out |-> o])]
            /\ clientCalls' = clientCalls \o TagCalls(t, n, ran.calls)
            /\ last_exception' = [last_exception EXCEPT ![t] = le]
            /\ current_delay' = [current_delay EXCEPT ![t] = st.current_delay]
            /\ IF st.act = "return"
               THEN /\ pc' = [pc EXCEPT ![t] = "SUCCESS"]
                    /\ result' = [result EXCEPT ![t] = st.res]
                    /\ log' = log \o Tag(t, n, ran.logs \o st.logs)
                    /\ UNCHANGED <<retries, sleeps>>
               ELSE IF st.act = "raise"
               THEN /\ pc' = [pc EXCEPT ![t] = "TERMINAL_FAILURE"]
                    /\ result' = [result EXCEPT ![t] = st.res]
                    /\ log' = log \o Tag(t, n, ran.logs \o st.logs)
                    /\ UNCHANGED <<retries, sleeps>>
               ELSE /\ retries' = [retries EXCEPT ![t] = @ + 1]
                    /\ IF again
                       THEN /\ pc' = [pc EXCEPT ![t] = "RETRY_WAIT"]
                            /\ sleeps' = [sleeps EXCEPT ![t] = Append(@, st.current_delay)]
                            /\ log' = log \o Tag(t, n, ran.logs \o st.logs
                                                       \o <<Entry("info")>>)
                            /\ UNCHANGED result
                       ELSE /\ pc' = [pc EXCEPT ![t] = "TERMINAL_FAILURE"]
                            /\ result' = [result EXCEPT ![t] = wrapper_exhausted(le)]
                            /\ log' = log \o Tag(t, n, ran.logs \o st.logs)
                            /\ UNCHANGED sleeps
    /\ UNCHANGED <<fn, cfg, args>>

\* The iteration with a working logging sink: the function runs against the
\* environment's outcome.
Attempt(t) ==
    /\ fn[t] # "test_connection"
    /\ \E env \in EnvChoices(t) : AttemptWith(t, env, func(fn[t], args[t], env))

\* A call of BasicBot.test_connection, decorated like the other methods
CallTestConnection(t) == Enter(t, "test_connection", FacadeCfg, NoArgs)

\* Outcomes of the two exchange calls test_connection makes
TestOutcomes ==
    {Ok(CHOOSE v \in Responses : v.orderId = 123), BinanceAPIException(-2015, NoHint),
     BinanceAPIException(-1003, MaxHint), BinanceOrderException, Exc("TimeoutError")}

\* The iteration of the loop for test_connection, whose body makes two
\* exchange calls
AttemptTestConnection(t) ==
    /\ fn[t] = "test_connection"
    /\ \E env1 \in TestOutcomes : \E env2 \in TestOutcomes :
         AttemptWith(t, [first |-> env1, second |-> env2], test_connection(env1, env2))

\* What a run of place_market_order / place_limit_order that got its order
\* becomes when log_trade raises: the except clause of the body logs the
\* error and re-raises; the order has been created.
log_trade_raises(ran) ==
    Ran(Exc("OSError"), ran.calls, <<log_api_request, log_error>>)

\* The iteration in which create-order succeeds and the logging sink then
\* fails on the trade entry.
AttemptSinkFails(t) ==
    /\ fn[t] \in {"place_market_order", "place_limit_order"}
    /\ \E env \in EnvChoices(t) :
         /\ env.type = "ok"
         /\ AttemptWith(t, env, log_trade_raises(func(fn[t], args[t], env)))

\* A plausible slip: the delay grows by addition instead of multiplication.
Wake_additive(t) ==
    /\ pc[t] = "RETRY_WAIT"
    /\ current_delay' = [current_delay EXCEPT ![t] = @ + cfg[t].backoff]
    /\ pc' = [pc EXCEPT ![t] = "ATTEMPTING"]
    /\ UNCHANGED <<fn, cfg, args, retries, last_exception, attempts, sleeps, result,
                   clientCalls, log>>

\* time.sleep(current_delay) returns; current_delay *= backoff
Wake(t) ==
    /\ pc[t] = "RETRY_WAIT"
    /\ current_delay' = [current_delay EXCEPT ![t] = @ * cfg[t].backoff]
    /\ pc' = [pc EXCEPT ![t] = "ATTEMPTING"]
    /\ UNCHANGED <<fn, cfg, args, retries, last_exception, attempts, sleeps, result,
                   clientCalls, log>>

\* get_current_price carries no decorator: its body runs once and its
\* outcome goes to the caller as it is.
CallUnwrapped(t) ==
    /\ pc[t] = "idle"
    /\ \E a \in ArgsOf("get_current_price") :
       \E env \in (IF ReachesClient("get_current_price", a)
                   THEN ClientFirstOutcomes ELSE {NoException}) :
         LET ran == get_current_price(a, env) IN
         /\ fn' = [fn EXCEPT ![t] = "get_current_price"]
         /\ args' = [args EXCEPT ![t] = a]
         /\ attempts' = [attempts EXCEPT ![t] = <<[env |-> env, out |-> ran.out]>>]
         /\ clientCalls' = clientCalls \o TagCalls(t, 1, ran.calls)
         /\ log' = log \o Tag(t, 1, ran.logs)
         /\ IF ran.out.type = "ok"
            THEN /\ pc' = [pc EXCEPT ![t] = "SUCCESS"]
                 /\ result' = [result EXCEPT ![t] = Return(ran.out.value)]
            ELSE /\ pc' = [pc EXCEPT ![t] = "TERMINAL_FAILURE"]
                 /\ result' = [result EXCEPT ![t] = Propagate(ran.out)]
    /\ UNCHANGED <<cfg, retries, current_delay, last_exception, sleeps>>

\* The errors handed to handle_binance_error
HandledErrors ==
    {BinanceAPIException(c, NoHint) : c \in TableCodes \cup UnmappedCodes}
    \cup {BinanceOrderException, Exc("ValueError")}

\* A call of handle_binance_error(error): it raises in one step.
CallHandle(t) ==
    /\ pc[t] = "idle"
    /\ \E error \in HandledErrors :
         /\ fn' = [fn EXCEPT ![t] = "handle_binance_error"]
         /\ attempts' = [attempts EXCEPT ![t] = <<[env |-> error, out |-> error]>>]
         /\ pc' = [pc EXCEPT ![t] = "TERMINAL_FAILURE"]
         /\ result' = [result EXCEPT ![t] = handle_binance_error(error)]
    /\ UNCHANGED <<cfg, args, retries, current_delay, last_exception, sleeps,
                   clientCalls, log>>

\* The caller has the result; the call's frame and its records are dropped.
Finish(t) ==
    /\ pc[t] \in {"SUCCESS", "TERMINAL_FAILURE"}
    /\ pc' = [pc EXCEPT ![t] = "idle"]
    /\ fn' = [fn EXCEPT ![t] = ""]
    /\ cfg' = [cfg EXCEPT ![t] = FacadeCfg]
    /\ args' = [args EXCEPT ![t] = NoArgs]
    /\ attempts' = [attempts EXCEPT ![t] = <<>>]
    /\ sleeps' = [sleeps EXCEPT ![t] = <<>>]
    /\ result' = [result EXCEPT ![t] = NoResult]
    /\ clientCalls' = SelectSeq(clientCalls, LAMBDA c : c.t # t)
    /\ log' = SelectSeq(log, LAMBDA e : e.t # t)
    /\ UNCHANGED <<retries, current_delay, last_exception>>

MainThread == 1

Next ==
    \/ CallOp(MainThread)
    \/ CallFacade(MainThread)
    \/ CallUnwrapped(MainThread)
    \/ CallHandle(MainThread)
    \/ CallTestConnection(MainThread)
    \/ AttemptTestConnection(MainThread)
    \/ Attempt(MainThread)
    \/ Wake(MainThread)
    \/ Finish(MainThread)

Spec == Init /\ [][Next]_vars

\* The same program with a logging sink that may fail
NextSink == Next \/ AttemptSinkFails(MainThread)

SpecSink == Init /\ [][NextSink]_vars

\* The calls of the wrapper when the thread is scheduled: an attempt that can
\* be made is made (each invocation of the operation returns or raises) and
\* every time.sleep returns.
\* Every attempt budget and both exception filters; the delays, which play no
\* part in whether the loop ends, are the facade's.
LiveConfigs == {[FacadeCfg EXCEPT !.max_retries = m, !.exceptions = x] :
                  m \in (-1)..MaxRetriesCfg, x \in {DefaultExceptions, {"TimeoutError"}}}

CallLive(t) == \E c \in LiveConfigs : Enter(t, "op", c, NoArgs)

NextLive ==
    \/ CallLive(MainThread)
    \/ CallFacade(MainThread)
    \/ Attempt(MainThread)
    \/ Wake(MainThread)
    \/ Finish(MainThread)

SpecLive ==
    Init /\ [][NextLive]_vars
         /\ WF_vars(Attempt(MainThread)) /\ WF_vars(Wake(MainThread))

\* Two threads call wrapped operations in parallel.  The operations and
\* their outcomes are kept few: a success, a rate-limit response with a
\* Retry-After header, a timeout.
ParConfigs == {[FacadeCfg EXCEPT !.delay = d] : d \in 1..MaxDelay}
ParOutcomes == {Ok(CHOOSE v \in Responses : v.orderId = 123),
                BinanceAPIException(-1003, MaxHint), Exc("TimeoutError")}

CallPar(t) == \E c \in ParConfigs : Enter(t, "op", c, NoArgs)
AttemptPar(t) == \E env \in ParOutcomes : AttemptWith(t, env, func(fn[t], args[t], env))

NextPar ==
    \E t \in Threads :
        \/ CallPar(t)
        \/ AttemptPar(t)
        \/ Wake(t)
        \/ Finish(t)

SpecPar == Init /\ [][NextPar]_vars

TypeOK ==
    /\ \A t \in Threads : pc[t] \in {"idle", "ATTEMPTING", "RETRY_WAIT", "SUCCESS",
                                      "TERMINAL_FAILURE"}
    /\ \A t \in Threads : retries[t] \in 0..MaxRetriesCfg

\* =================================================================
\* Properties
\* =================================================================
Done(t) == pc[t] \in {"SUCCESS", "TERMINAL_FAILURE"}
Wrapped(t) == fn[t] \in WrappedMethods \cup {"op"}
Invocations(t) == Len(attempts[t])
CallsOf(t) == SelectSeq(clientCalls, LAMBDA c : c.t = t)
LastAttempt(t) == attempts[t][Len(attempts[t])]

IsApi(o, codes) == o.type = "raise" /\ o.cls = "BinanceAPIException" /\ o.code \in codes

RECURSIVE Pow(_, _)
Pow(b, n) == IF n = 0 THEN 1 ELSE b * Pow(b, n - 1)

\* sleeps[t] is delay, delay*backoff, delay*backoff^2, ...
PlainBackoff(t) ==
    \A i \in 1..Len(sleeps[t]) : sleeps[t][i] = cfg[t].delay * Pow(cfg[t].backoff, i - 1)

\* ----------------------------------------------------------------- C1
\* C1: a wrapped operation that raises, on its first invocation, a code the
\* table maps to InvalidOrderError is invoked exactly once: the call ends
\* there with InvalidOrderError and without any sleep (max_retries >= 1).
C1_InvalidRequestRaisedAtOnce ==
    \A t \in Threads :
        (fn[t] = "op" /\ cfg[t].max_retries >= 1 /\ Invocations(t) >= 1
         /\ IsApi(attempts[t][1].out, InvalidOrderCodes))
        => (/\ pc[t] = "TERMINAL_FAILURE"
            /\ Invocations(t) = 1
            /\ sleeps[t] = <<>>
            /\ result[t].cls = "InvalidOrderError")

\* ----------------------------------------------------------------- C2
\* C2: an attempt that raises a code the table maps to
\* InsufficientBalanceError (-2010, -2018, -2019) is the last one: the call
\* ends there with InsufficientBalanceError and no sleep follows it.
C2_InsufficientBalanceRaisedAtOnce ==
    \A t \in Threads :
        \A i \in 1..Invocations(t) :
            (fn[t] = "op" /\ IsApi(attempts[t][i].out, InsufficientBalanceCodes))
            => (/\ i = Invocations(t)
                /\ pc[t] = "TERMINAL_FAILURE"
                /\ Len(sleeps[t]) = i - 1
                /\ result[t].cls = "InsufficientBalanceError")

\* ----------------------------------------------------------------- C3
\* C3: place_limit_order with price None never calls the exchange client
\* and ends with InvalidOrderError.
C3_LimitWithoutPriceRejected ==
    \A t \in Threads :
        (fn[t] = "place_limit_order" /\ IsNone(args[t].price))
        => (/\ CallsOf(t) = <<>>
            /\ Done(t) => (result[t].kind = "raise"
                           /\ result[t].cls = "InvalidOrderError"))

\* ----------------------------------------------------------------- C4
\* The inputs the claim names as failing validation: an empty symbol, a side
\* that is not BUY/SELL, a non-positive quantity or price.
InvalidInputs(a) ==
    \/ a.symbol = Str("")
    \/ IsStr(a.side) /\ upper(a.side.s) \notin {"BUY", "SELL"}
    \/ IsNumber(a.quantity) /\ a.quantity.n <= 0
    \/ IsNumber(a.price) /\ a.price.n <= 0

\* C4: an order-placing call whose inputs fail validation runs the decorated
\* body exactly once, never sleeps, and raises InvalidOrderError.
C4_ValidationFailsFast ==
    \A t \in Threads :
        (fn[t] \in {"place_market_order", "place_limit_order"}
         /\ InvalidInputs(args[t]) /\ Invocations(t) >= 1)
        => (/\ Invocations(t) = 1
            /\ sleeps[t] = <<>>
            /\ pc[t] = "TERMINAL_FAILURE"
            /\ result[t].cls = "InvalidOrderError")

\* ----------------------------------------------------------------- C5
\* The inputs each method's validation rejects, read off the checks the
\* method applies to its own arguments.
SymbolRejected(a) == ~IsNone(a.symbol) /\ (~IsStr(a.symbol) \/ strip(a.symbol.s) = "")
Rejected(f, a) ==
    CASE f = "place_market_order" ->
           \/ SymbolRejected(a)
           \/ IsStr(a.side) /\ upper(a.side.s) \notin {"BUY", "SELL"}
           \/ IsNumber(a.quantity) /\ a.quantity.n <= 0
      [] f = "place_limit_order" ->
           \/ SymbolRejected(a)
           \/ IsStr(a.side) /\ upper(a.side.s) \notin {"BUY", "SELL"}
           \/ IsNumber(a.quantity) /\ a.quantity.n <= 0
           \/ IsNumber(a.price) /\ a.price.n <= 0
      [] f = "cancel_order" ->
           ~Truthy(a.symbol) \/ ~Truthy(a.order_id) \/ SymbolRejected(a)
      [] f = "get_open_orders" -> Truthy(a.symbol) /\ SymbolRejected(a)
      [] f \in {"get_symbol_info", "get_current_price"} -> SymbolRejected(a)
      [] OTHER -> FALSE

\* C5: when validation rejects the inputs of a facade call, the call makes no
\* exchange-client call at all, over all of its attempts.
C5_RejectedInputsNeverReachClient ==
    \A t \in Threads : Rejected(fn[t], args[t]) => CallsOf(t) = <<>>

\* a rejected get_open_orders call has used up its three attempts
C5_Witness ==
    \E t \in Threads :
        /\ fn[t] = "get_open_orders" /\ Rejected(fn[t], args[t])
        /\ pc[t] = "TERMINAL_FAILURE" /\ Invocations(t) = FacadeMaxRetries
        /\ CallsOf(t) = <<>>

\* ----------------------------------------------------------------- C6
\* C6: place_market_order with a valid symbol and side and a quantity <= 0
\* ends with InvalidOrderError whose field is "quantity" and whose value is
\* the quantity supplied.
C6_BadQuantityIsInvalidOrderError ==
    \A t \in Threads :
        (/\ fn[t] = "place_market_order" /\ Done(t)
         /\ IsStr(args[t].symbol) /\ strip(args[t].symbol.s) # ""
         /\ IsStr(args[t].side) /\ upper(args[t].side.s) \in {"BUY", "SELL"}
         /\ IsNumber(args[t].quantity) /\ args[t].quantity.n <= 0)
        => (/\ result[t].kind = "raise"
            /\ result[t].cls = "InvalidOrderError"
            /\ result[t].field = "quantity"
            /\ result[t].fvalue = args[t].quantity)

C6_Witness ==
    \E t \in Threads :
        /\ fn[t] = "place_market_order" /\ pc[t] = "TERMINAL_FAILURE"
        /\ args[t].symbol = Str("BTCUSDT") /\ args[t].side = Str("buy")
        /\ args[t].quantity = Num(-1)
        /\ result[t].field = "quantity"

\* ----------------------------------------------------------------- C7
AllAttempts(t, P(_)) == \A i \in 1..Invocations(t) : P(attempts[t][i].out)
RateLimited(o) == IsApi(o, RateLimitCodes)

\* C7: an operation that raises a rate-limit code (-1003, -1008, -1015) on
\* every attempt is invoked exactly max_retries times and the call ends with
\* RateLimitError (max_retries >= 1).
C7_RateLimitedExhaustsBudget ==
    \A t \in Threads :
        (fn[t] = "op" /\ cfg[t].max_retries >= 1 /\ AllAttempts(t, RateLimited))
        => (/\ Invocations(t) <= cfg[t].max_retries
            /\ pc[t] # "SUCCESS"
            /\ Done(t) => (/\ Invocations(t) = cfg[t].max_retries
                           /\ result[t].kind = "raise"
                           /\ result[t].cls = "RateLimitError"))

C7_Witness ==
    \E t \in Threads :
        /\ fn[t] = "op" /\ Done(t) /\ cfg[t].max_retries >= 2
        /\ Invocations(t) = cfg[t].max_retries
        /\ AllAttempts(t, RateLimited)
        /\ attempts[t][1].out.code = -1003
        /\ result[t].cls = "RateLimitError"

\* ----------------------------------------------------------------- C8
\* C8: when an attempt that is not the last one fails with a rate-limit code,
\* the sleep that follows lasts max(current delay, Retry-After hint), and the
\* current delay when the response carries no hint.
C8_RateLimitSleepHonoursHint ==
    [][\A t \in Threads :
         (pc[t] = "ATTEMPTING" /\ pc'[t] = "RETRY_WAIT"
          /\ RateLimited(attempts'[t][Len(attempts'[t])].out))
         => LET hint == attempts'[t][Len(attempts'[t])].out.hint
                slept == sleeps'[t][Len(sleeps'[t])]
            IN slept = IF hint = NoHint THEN current_delay[t]
                       ELSE Max(current_delay[t], hint)]_vars

\* ----------------------------------------------------------------- C9
Failed(o) == o.type = "raise"

\* C9 as stated: after k failures and a success the call returns the
\* operation's value after k+1 invocations and has slept delay * backoff^i,
\* i = 0..k-1.
C9_SleepsArePlainBackoff ==
    \A t \in Threads :
        (Wrapped(t) /\ pc[t] = "SUCCESS")
        => (/\ result[t] = Return(LastAttempt(t).out.value)
            /\ \A i \in 1..(Invocations(t) - 1) : Failed(attempts[t][i].out)
            /\ Len(sleeps[t]) = Invocations(t) - 1
            /\ PlainBackoff(t))

\* The delay the i-th sleep starts from, and the sleep the code performs: a
\* -1003 response with a Retry-After header raises it to the header's value.
BaseDelay(t, i) == IF i = 1 THEN cfg[t].delay ELSE sleeps[t][i - 1] * cfg[t].backoff
ExpectedSleep(t, i) ==
    LET o == attempts[t][i].out IN
    IF IsApi(o, {-1003}) /\ o.hint # NoHint
    THEN Max(BaseDelay(t, i), o.hint) ELSE BaseDelay(t, i)

\* C9 amended: after k failures and a success the call returns the
\* operation's value after k+1 invocations; the i-th sleep is the previous
\* sleep times backoff (delay for the first), raised to the Retry-After hint
\* when the i-th failure is a -1003 response with a larger hint; without such
\* a response the sleeps are delay * backoff^i.
C9_SleepsFollowBackoffAndHint ==
    \A t \in Threads :
        (Wrapped(t) /\ pc[t] = "SUCCESS")
        => (/\ result[t] = Return(LastAttempt(t).out.value)
            /\ \A i \in 1..(Invocations(t) - 1) : Failed(attempts[t][i].out)
            /\ Len(sleeps[t]) = Invocations(t) - 1
            /\ Invocations(t) <= cfg[t].max_retries
            /\ \A i \in 1..Len(sleeps[t]) : sleeps[t][i] = ExpectedSleep(t, i)
            /\ (\A i \in 1..Len(sleeps[t]) :
                  ~(IsApi(attempts[t][i].out, {-1003})
                    /\ attempts[t][i].out.hint > BaseDelay(t, i)))
               => PlainBackoff(t))

\* two failures, the first a -1003 with a large hint, then a success
C9_Witness ==
    \E t \in Threads :
        /\ fn[t] = "op" /\ pc[t] = "SUCCESS" /\ Invocations(t) = 3
        /\ IsApi(attempts[t][1].out, {-1003}) /\ attempts[t][1].out.hint = MaxHint
        /\ cfg[t].backoff = 2 /\ cfg[t].delay = 1
        /\ sleeps[t] = <<MaxHint, 2 * MaxHint>>

\* ----------------------------------------------------------------- C10
\* Connectivity codes, codes outside the table, the codes the table leaves
\* generic, and exceptions of other classes that the decorator catches.
Transient(t, o) ==
    \/ IsApi(o, ConnectionCodes \cup GenericCodes)
    \/ o.type = "raise" /\ o.cls = "BinanceAPIException" /\ o.code \notin TableCodes
    \/ /\ o.type = "raise"
       /\ o.cls \notin {"BinanceAPIException", "BinanceOrderException"}
       /\ o.cls \notin TradingBotClasses
       /\ isinstance(o.cls, cfg[t].exceptions)

\* C10: an operation that fails every attempt with a connectivity,
\* unknown-code or other transient error is invoked exactly max_retries
\* times, with max_retries - 1 sleeps of delay * backoff^i, and the call then
\* raises the classified error (max_retries >= 1).
C10_TransientExhaustsBudget ==
    \A t \in Threads :
        (/\ fn[t] = "op" /\ cfg[t].max_retries >= 1
         /\ \A i \in 1..Invocations(t) : Transient(t, attempts[t][i].out))
        => (/\ Invocations(t) <= cfg[t].max_retries
            /\ pc[t] # "SUCCESS"
            /\ PlainBackoff(t)
            /\ Done(t) => (/\ Invocations(t) = cfg[t].max_retries
                           /\ Len(sleeps[t]) = cfg[t].max_retries - 1
                           /\ result[t].kind = "raise"
                           /\ result[t].cls =
                                IF LastAttempt(t).out.cls = "BinanceAPIException"
                                THEN BINANCE_ERROR_MAP(LastAttempt(t).out.code)
                                ELSE "ConnectionError"))

C10_Witness ==
    \E t \in Threads :
        /\ fn[t] = "op" /\ pc[t] = "TERMINAL_FAILURE"
        /\ cfg[t].max_retries = 3 /\ cfg[t].delay = 2 /\ cfg[t].backoff = 2
        /\ Invocations(t) = 3
        /\ \A i \in 1..3 : attempts[t][i].out = Exc("TimeoutError")
        /\ sleeps[t] = <<2, 4>>
        /\ result[t].cls = "ConnectionError"


\* ----------------------------------------------------------------- C11
\* C11: an attempt in which the wrapped function raises
\* BinanceOrderException is the last one: the call ends there with
\* OrderPlacementError, no sleep follows, whatever budget remains.
C11_OrderExceptionNeverRetried ==
    \A t \in Threads :
        \A i \in 1..Invocations(t) :
            (Wrapped(t) /\ attempts[t][i].out.type = "raise"
             /\ attempts[t][i].out.cls = "BinanceOrderException")
            => (/\ i = Invocations(t)
                /\ pc[t] = "TERMINAL_FAILURE"
                /\ Len(sleeps[t]) = i - 1
                /\ result[t].kind = "raise"
                /\ result[t].cls = "OrderPlacementError")

\* an order exception on the first of three allowed attempts
C11_Witness ==
    \E t \in Threads :
        /\ fn[t] = "op" /\ cfg[t].max_retries = 3 /\ Invocations(t) = 1
        /\ attempts[t][1].out = BinanceOrderException
        /\ pc[t] = "TERMINAL_FAILURE" /\ sleeps[t] = <<>>
        /\ result[t].cls = "OrderPlacementError"


\* ----------------------------------------------------------------- C12
\* The steps of one wrapper execution that the state machine allows, given
\* the states a call may start in.
MachineStep(t, starts) ==
    \/ pc'[t] = pc[t] /\ attempts'[t] = attempts[t] /\ sleeps'[t] = sleeps[t]
    \/ pc[t] = "idle" /\ pc'[t] \in starts
       /\ attempts'[t] = <<>> /\ sleeps'[t] = <<>>
    \/ /\ pc[t] = "ATTEMPTING"
       /\ pc'[t] \in {"SUCCESS", "RETRY_WAIT", "TERMINAL_FAILURE"}
       /\ Len(attempts'[t]) = Len(attempts[t]) + 1
       /\ IF pc'[t] = "RETRY_WAIT"
          THEN /\ Len(sleeps'[t]) = Len(sleeps[t]) + 1
               /\ attempts'[t][Len(attempts'[t])].out.type = "raise"
          ELSE sleeps'[t] = sleeps[t]
       /\ pc'[t] = "SUCCESS" <=> attempts'[t][Len(attempts'[t])].out.type = "ok"
    \/ pc[t] = "RETRY_WAIT" /\ pc'[t] = "ATTEMPTING"
       /\ attempts'[t] = attempts[t] /\ sleeps'[t] = sleeps[t]
    \/ pc[t] \in {"SUCCESS", "TERMINAL_FAILURE"} /\ pc'[t] = "idle"

WrapperStep(t) == fn[t] \in WrappedMethods \cup {"op"} \/ fn'[t] \in WrappedMethods \cup {"op"}

\* C12 as stated: every wrapper execution starts in ATTEMPTING and moves
\* ATTEMPTING -> (SUCCESS | RETRY_WAIT -> ATTEMPTING | TERMINAL_FAILURE);
\* the terminal states have no successor in the call.
C12_StartsInAttempting ==
    [][\A t \in Threads : WrapperStep(t) => MachineStep(t, {"ATTEMPTING"})]_vars

\* C12 amended: the same machine, except that an execution configured with
\* max_retries <= 0 makes no attempt: it goes straight to TERMINAL_FAILURE.
C12_StateMachine ==
    [][\A t \in Threads :
         WrapperStep(t)
         => /\ MachineStep(t, {"ATTEMPTING", "TERMINAL_FAILURE"})
            /\ (pc[t] = "idle" /\ pc'[t] = "ATTEMPTING") => cfg'[t].max_retries >= 1
            /\ (pc[t] = "idle" /\ pc'[t] = "TERMINAL_FAILURE")
               => (cfg'[t].max_retries <= 0 /\ attempts'[t] = <<>>)]_vars

\* a third attempt is about to start, after two sleeps
C12_Witness ==
    \E t \in Threads :
        /\ fn[t] = "op" /\ pc[t] = "ATTEMPTING"
        /\ Invocations(t) = 2 /\ Len(sleeps[t]) = 2


\* ----------------------------------------------------------------- C13
\* Valid arguments of place_market_order: a non-blank symbol string, a side
\* that reads buy or sell in any letter case, a positive quantity.
ValidMarketArgs(a) ==
    /\ IsStr(a.symbol) /\ strip(a.symbol.s) # ""
    /\ IsStr(a.side) /\ upper(a.side.s) \in {"BUY", "SELL"}
    /\ IsNumber(a.quantity) /\ a.quantity.n > 0

TradesOf(t) == SelectSeq(log, LAMBDA e : e.t = t /\ e.kind = "trade-executed")

\* C13: a valid place_market_order whose first create-order invocation
\* succeeds calls create-order exactly once, with the upper-cased symbol and
\* side and type MARKET, returns the exchange response unchanged and emits
\* exactly one trade-executed entry, which carries the response's order id.
C13_MarketOrderHappyPath ==
    \A t \in Threads :
        (fn[t] = "place_market_order" /\ ValidMarketArgs(args[t]) /\ pc[t] # "ATTEMPTING")
        => /\ Invocations(t) >= 1
           /\ attempts[t][1].env.type = "ok"
              => /\ pc[t] = "SUCCESS" /\ Invocations(t) = 1
                 /\ Len(CallsOf(t)) = 1
                 /\ CallsOf(t)[1].call.method = "futures_create_order"
                 /\ CallsOf(t)[1].call.symbol \in {Str("BTCUSDT")}
                 /\ CallsOf(t)[1].call.symbol = Str(upper(args[t].symbol.s))
                 /\ CallsOf(t)[1].call.side = Str(upper(args[t].side.s))
                 /\ CallsOf(t)[1].call.side \in {Str("BUY"), Str("SELL")}
                 /\ CallsOf(t)[1].call.type = Str("MARKET")
                 /\ CallsOf(t)[1].call.quantity = args[t].quantity
                 /\ result[t] = Return(attempts[t][1].env.value)
                 /\ Len(TradesOf(t)) = 1
                 /\ TradesOf(t)[1].order_id = attempts[t][1].env.value.orderId

\* placeMarketOrder("btcusdt", "buy", ...) answered with order id 123
C13_Witness ==
    \E t \in Threads :
        /\ fn[t] = "place_market_order" /\ pc[t] = "SUCCESS"
        /\ args[t].symbol = Str("btcusdt") /\ args[t].side = Str("buy")
        /\ CallsOf(t)[1].call.symbol = Str("BTCUSDT")
        /\ CallsOf(t)[1].call.side = Str("BUY")
        /\ result[t].value.orderId = 123
        /\ TradesOf(t)[1].order_id = 123


\* ----------------------------------------------------------------- C14
\* The user-facing operations of BasicBot
FacadeOperations == WrappedMethods \cup {"get_current_price"}

\* C14: for every facade operation, a transient failure of the first
\* exchange call is retried, and when the second exchange call succeeds the
\* call returns its result.
C14_FacadeRetriesTransientFailure ==
    \A t \in Threads :
        (fn[t] \in FacadeOperations /\ Done(t) /\ Invocations(t) >= 1
         /\ attempts[t][1].env = Exc("TimeoutError"))
        => /\ Invocations(t) >= 2
           /\ attempts[t][2].env.type = "ok" /\ attempts[t][2].out.type = "ok"
              => (pc[t] = "SUCCESS" /\ result[t] = Return(attempts[t][2].out.value))


\* ----------------------------------------------------------------- C15
\* bad symbol, bad side, bad precision, missing mandatory field
ParameterFamily == {-1121, -1117, -1111, -1102}

\* C15: every code of the invalid-request-parameter family classifies to
\* InvalidOrderError and is not retried: the attempt that raises it is the
\* last one and the call ends there with InvalidOrderError.
C15_ParameterFamilyIsInvalidOrder ==
    \A t \in Threads :
        \A i \in 1..Invocations(t) :
            (fn[t] = "op" /\ IsApi(attempts[t][i].out, ParameterFamily))
            => (/\ BINANCE_ERROR_MAP(attempts[t][i].out.code) = "InvalidOrderError"
                /\ i = Invocations(t)
                /\ pc[t] = "TERMINAL_FAILURE"
                /\ Len(sleeps[t]) = i - 1
                /\ result[t].cls = "InvalidOrderError")


\* ----------------------------------------------------------------- C16
\* The kinds documented for the codes outside the invalid-parameter family
DocumentedCodes == {-1022, -1021, -1002, -2014, -2015, -1003, -1015, -1008,
                    -2010, -2018, -2019, -2011, -2013, -2021}
Documented(code) ==
    CASE code \in {-1022, -1021, -1002, -2014, -2015} -> "ConnectionError"
      [] code \in {-1003, -1015, -1008} -> "RateLimitError"
      [] code \in {-2010, -2018, -2019} -> "InsufficientBalanceError"
      [] code \in {-2011, -2013, -2021} -> "OrderCancellationError"

\* C16: for every documented code outside the invalid-parameter family the
\* table gives the documented kind, handle_binance_error raises that kind,
\* and a retry_api_call execution whose last attempt raised the code ends
\* with that same kind.
C16_DocumentedKinds ==
    \A t \in Threads :
        (Done(t) /\ fn[t] \in {"op", "handle_binance_error"} /\ Invocations(t) >= 1
         /\ IsApi(LastAttempt(t).out, DocumentedCodes))
        => LET code == LastAttempt(t).out.code IN
           /\ BINANCE_ERROR_MAP(code) = Documented(code)
           /\ handle_binance_error(LastAttempt(t).out).cls = Documented(code)
           /\ result[t].kind = "raise"
           /\ result[t].cls = Documented(code)
           /\ result[t].error_code = code

\* handle_binance_error was called with -2014 and retry_api_call can end on it too
C16_Witness ==
    \E t \in Threads :
        /\ fn[t] = "handle_binance_error" /\ pc[t] = "TERMINAL_FAILURE"
        /\ IsApi(attempts[t][1].out, {-2014})
        /\ result[t].cls = "ConnectionError"


\* ----------------------------------------------------------------- C17
\* C17: when the exchange code is not a key of the table, handle_binance_error
\* and the terminal error of retry_api_call are plain TradingBotError, and the
\* raw code is kept both in error_code and in the rendered message.
C17_UnmappedCodeIsGenericAndKept ==
    \A t \in Threads :
        (Done(t) /\ fn[t] \in {"op", "handle_binance_error"} /\ Invocations(t) >= 1
         /\ LastAttempt(t).out.type = "raise"
         /\ LastAttempt(t).out.cls = "BinanceAPIException"
         /\ LastAttempt(t).out.code \notin TableCodes)
        => /\ result[t].kind = "raise"
           /\ result[t].cls = "TradingBotError"
           /\ result[t].error_code = LastAttempt(t).out.code
           /\ TradingBotError_str(result[t]).code = LastAttempt(t).out.code


\* ----------------------------------------------------------------- C18
\* Every attempt so far raised the exchange error code of the first one
SameCodeEveryAttempt(t) ==
    /\ Invocations(t) >= 1
    /\ \A i \in 1..Invocations(t) :
         /\ attempts[t][i].out.type = "raise"
         /\ attempts[t][i].out.cls = "BinanceAPIException"
         /\ attempts[t][i].out.code = attempts[t][1].out.code

\* C18: when the wrapped operation raises the same code c on every attempt,
\* the error retry_api_call finally raises has the kind the table gives c,
\* whatever max_retries >= 1 is and wherever the error is raised (first
\* attempt, last attempt in the loop, after the loop).
C18_KindIndependentOfRetries ==
    \A t \in Threads :
        (fn[t] = "op" /\ Done(t) /\ SameCodeEveryAttempt(t))
        => /\ result[t].kind = "raise"
           /\ result[t].cls = BINANCE_ERROR_MAP(attempts[t][1].out.code)
           /\ result[t].error_code = attempts[t][1].out.code

\* timestamp skew on each of three attempts: raised after the loop
C18_Witness ==
    \E t \in Threads :
        /\ fn[t] = "op" /\ pc[t] = "TERMINAL_FAILURE" /\ SameCodeEveryAttempt(t)
        /\ cfg[t].max_retries = 3 /\ Invocations(t) = 3
        /\ attempts[t][1].out.code = -1021
        /\ result[t].cls = "ConnectionError"


\* ----------------------------------------------------------------- C19
\* The exchange client rejected every request of the call with the code of
\* the first rejection
RejectedEveryAttempt(t) ==
    /\ Invocations(t) >= 1
    /\ \A i \in 1..Invocations(t) :
         /\ attempts[t][i].env.type = "raise"
         /\ attempts[t][i].env.cls = "BinanceAPIException"
         /\ attempts[t][i].env.code = attempts[t][1].env.code

ErrorsOf(t) == SelectSeq(log, LAMBDA e : e.t = t /\ e.kind = "error")

\* C19: a facade operation whose every exchange call is rejected with code c
\* emits at least one error log entry and delivers to its caller the
\* classified error of the kind the table gives c, never the raw exchange
\* exception and never another kind.
C19_FacadeDeliversClassifiedError ==
    \A t \in Threads :
        (fn[t] \in FacadeOperations /\ Done(t) /\ RejectedEveryAttempt(t))
        => /\ Len(ErrorsOf(t)) >= 1
           /\ result[t].kind = "raise"
           /\ result[t].cls \in TradingBotClasses
           /\ result[t].cls = BINANCE_ERROR_MAP(attempts[t][1].env.code)


\* ----------------------------------------------------------------- C20
\* Attempt i of thread t got its order from the exchange and then failed to
\* log the trade-executed entry.
SinkFailedAt(t, i) ==
    /\ fn[t] \in {"place_market_order", "place_limit_order"}
    /\ attempts[t][i].env.type = "ok"
    /\ attempts[t][i].out = Exc("OSError")

\* C20: when create-order has succeeded and the trade-executed entry fails
\* to log, the call completes as with a working sink: it returns that order
\* response and create-order is not invoked again.
C20_SinkFailureKeepsOutcome ==
    \A t \in Threads :
        \A i \in 1..Invocations(t) :
            SinkFailedAt(t, i)
            => /\ i = Invocations(t)
               /\ pc[t] = "SUCCESS"
               /\ result[t] = Return(attempts[t][i].env.value)
               /\ Len(CallsOf(t)) = 1


\* ----------------------------------------------------------------- C21
\* C21: the RateLimitError that ends a call whose last attempt was a
\* rate-limit response with a Retry-After hint carries that hint in its
\* retry_after field.
C21_RateLimitErrorCarriesHint ==
    \A t \in Threads :
        (fn[t] = "op" /\ pc[t] = "TERMINAL_FAILURE" /\ Invocations(t) >= 1
         /\ IsApi(LastAttempt(t).out, RateLimitCodes)
         /\ LastAttempt(t).out.hint # NoHint
         /\ result[t].cls = "RateLimitError")
        => result[t].retry_after = LastAttempt(t).out.hint


\* ----------------------------------------------------------------- C22
\* The sink entries that attempt i of thread t produced
EntriesOf(t, i) == SelectSeq(log, LAMBDA e : e.t = t /\ e.attempt = i)

\* C22: in every execution of the wrapper each attempt made so far, failed
\* or successful, has produced at least one sink entry by the time the
\* wrapper sleeps, starts the next attempt, returns or raises.
C22_EveryAttemptIsReported ==
    \A t \in Threads :
        Wrapped(t) => \A i \in 1..Invocations(t) : EntriesOf(t, i) # <<>>


\* ----------------------------------------------------------------- C23
\* The wrapper run alone, as a function of its configuration and of the
\* outcomes of the invocations made so far: the locals, the sleeps and the
\* result right after the last of them.
AloneStart(c) ==
    [pc |-> IF 0 < c.max_retries THEN "ATTEMPTING" ELSE "TERMINAL_FAILURE",
     retries |-> 0, current_delay |-> c.delay, last_exception |-> NoException,
     sleeps |-> <<>>,
     result |-> IF 0 < c.max_retries THEN NoResult ELSE wrapper_exhausted(NoException)]

AloneAttempt(c, s, o) ==
    LET cd == IF s.pc = "RETRY_WAIT" THEN s.current_delay * c.backoff
              ELSE s.current_delay
        st == wrapper_try(c, s.retries, cd, o)
        handled == o.type = "raise"
                   /\ (o.cls \in {"BinanceAPIException", "BinanceOrderException"}
                       \/ isinstance(o.cls, c.exceptions))
        le == IF handled THEN o ELSE s.last_exception
    IN IF st.act = "return"
       THEN [s EXCEPT !.pc = "SUCCESS", !.result = st.res, !.current_delay = cd]
       ELSE IF st.act = "raise"
       THEN [s EXCEPT !.pc = "TERMINAL_FAILURE", !.result = st.res,
                      !.current_delay = st.current_delay, !.last_exception = le]
       ELSE IF s.retries + 1 < c.max_retries
       THEN [s EXCEPT !.pc = "RETRY_WAIT", !.retries = @ + 1,
                      !.current_delay = st.current_delay, !.last_exception = le,
                      !.sleeps = Append(@, st.current_delay)]
       ELSE [s EXCEPT !.pc = "TERMINAL_FAILURE", !.retries = @ + 1,
                      !.current_delay = st.current_delay, !.last_exception = le,
                      !.result = wrapper_exhausted(le)]

RECURSIVE Alone(_, _)
Alone(c, outs) ==
    IF outs = <<>> THEN AloneStart(c)
    ELSE AloneAttempt(c, Alone(c, SubSeq(outs, 1, Len(outs) - 1)), outs[Len(outs)])

OutcomesOf(t) == [i \in 1..Invocations(t) |-> attempts[t][i].out]

\* C23: retry state is per call.  Whatever earlier calls left behind and
\* whatever the other thread is doing, a wrapped call's attempt count,
\* current delay, sleeps and outcome are those of the wrapper run alone on
\* the same configuration and the same outcomes of its own invocations; in
\* particular it starts with retries 0 and current_delay = delay.
C23_RetryStateIsPerCall ==
    \A t \in Threads :
        (Wrapped(t) /\ pc[t] # "idle")
        => LET a == Alone(cfg[t], OutcomesOf(t))
               woken == pc[t] = "ATTEMPTING" /\ Invocations(t) >= 1
           IN /\ retries[t] = a.retries
              /\ sleeps[t] = a.sleeps
              /\ result[t] = a.result
              /\ last_exception[t] = a.last_exception
              /\ IF woken
                 THEN a.pc = "RETRY_WAIT"
                      /\ current_delay[t] = a.current_delay * cfg[t].backoff
                 ELSE pc[t] = a.pc /\ current_delay[t] = a.current_delay
              /\ (Invocations(t) = 0 /\ pc[t] = "ATTEMPTING")
                 => (retries[t] = 0 /\ current_delay[t] = cfg[t].delay)

\* thread 1 starts a call with fresh locals while thread 2 is asleep with a
\* delay that a Retry-After hint has raised
C23_Witness ==
    /\ pc[1] = "ATTEMPTING" /\ Invocations(1) = 0
    /\ retries[1] = 0 /\ current_delay[1] = cfg[1].delay
    /\ pc[2] = "RETRY_WAIT" /\ retries[2] = 2 /\ current_delay[2] > MaxHint


\* ----------------------------------------------------------------- C24
InCall(t) == Wrapped(t) /\ pc[t] \in {"ATTEMPTING", "RETRY_WAIT"}

\* never more than max_retries invocations (none for max_retries <= 0); once
\* the call has ended with max_retries >= 1, one sleep less than invocations
BoundedAttempts(t) ==
    Wrapped(t)
    => /\ Invocations(t) <= Max(cfg[t].max_retries, 0)
       /\ (Done(t) /\ cfg[t].max_retries >= 1)
          => (Invocations(t) >= 1 /\ Len(sleeps[t]) = Invocations(t) - 1)

\* C24: every call of the wrapper terminates, returning or raising, after at
\* most max_retries invocations; for max_retries >= 1 it has then slept
\* exactly once less than it invoked, so no sleep follows the final attempt.
C24_WrapperTerminates ==
    \A t \in Threads :
        /\ [](BoundedAttempts(t))
        /\ InCall(t) ~> (Done(t) /\ result[t].kind \in {"return", "raise"})

\* a call ended by its third and last permitted attempt, after two sleeps
C24_Witness ==
    \E t \in Threads :
        /\ Wrapped(t) /\ pc[t] = "TERMINAL_FAILURE"
        /\ cfg[t].max_retries = 3 /\ Invocations(t) = 3 /\ Len(sleeps[t]) = 2


\* ----------------------------------------------------------------- C25
\* The error a call of one single attempt ends with when that attempt has
\* outcome o
SingleAttemptError(c, o) == Alone([c EXCEPT !.max_retries = 1], <<o>>).result

\* C25: the kind and the code of the terminal error depend on the last
\* attempt alone: they are those of a call whose only attempt failed as the
\* last one did, whatever the earlier attempts raised.
C25_TerminalErrorIsLastAttempts ==
    \A t \in Threads :
        (Wrapped(t) /\ pc[t] = "TERMINAL_FAILURE" /\ Invocations(t) >= 1)
        => LET e == SingleAttemptError(cfg[t], LastAttempt(t).out)
           IN /\ result[t].kind = "raise"
              /\ result[t].cls = e.cls
              /\ result[t].error_code = e.error_code

\* a rate-limit response, then timeouts: the caller gets ConnectionError
C25_Witness ==
    \E t \in Threads :
        /\ fn[t] = "op" /\ pc[t] = "TERMINAL_FAILURE" /\ Invocations(t) = 3
        /\ IsApi(attempts[t][1].out, {-1003})
        /\ LastAttempt(t).out = Exc("TimeoutError")
        /\ isinstance("TimeoutError", cfg[t].exceptions)
        /\ result[t].cls = "ConnectionError" /\ result[t].error_code = NoCode


\* ----------------------------------------------------------------- C26
\* Failure i of the call was a -1003 response whose Retry-After hint is
\* larger than the delay the call had reached
HintRaises(t, i) ==
    IsApi(attempts[t][i].out, {-1003}) /\ attempts[t][i].out.hint > BaseDelay(t, i)

\* C26: within one call current_delay never decreases; a Retry-After hint r
\* above it becomes the next sleep, and the sleep after the following
\* failure is r * backoff (more only if that failure brings a larger hint).
C26_DelayNeverDecreases ==
    /\ [][\A t \in Threads :
            (Wrapped(t) /\ pc[t] \in {"ATTEMPTING", "RETRY_WAIT"})
            => current_delay'[t] >= current_delay[t]]_vars
    /\ [](\A t \in Threads :
            Wrapped(t)
            => \A i \in 1..Len(sleeps[t]) :
                 HintRaises(t, i)
                 => LET r == attempts[t][i].out.hint IN
                    /\ sleeps[t][i] = r
                    /\ i < Len(sleeps[t])
                       => /\ sleeps[t][i + 1] >= r * cfg[t].backoff
                          /\ ~HintRaises(t, i + 1)
                             => sleeps[t][i + 1] = r * cfg[t].backoff)

\* hint 5 on the first failure, a timeout next: sleeps 5 and 5 * backoff
C26_Witness ==
    \E t \in Threads :
        /\ fn[t] = "op" /\ cfg[t].delay = 1 /\ cfg[t].backoff = 2
        /\ Len(sleeps[t]) = 2 /\ HintRaises(t, 1)
        /\ attempts[t][2].out = Exc("TimeoutError")
        /\ sleeps[t] = <<MaxHint, MaxHint * 2>>
        /\ current_delay[t] = MaxHint * 2


\* ----------------------------------------------------------------- C27
CreateCallsOf(t) ==
    SelectSeq(clientCalls, LAMBDA c : c.t = t /\ c.call.method = "futures_create_order")

\* The kinds that must fail at once
NonRetryableKinds == {"InvalidOrderError", "InsufficientBalanceError"}

\* The exchange call failed with a retryable exchange error or with a
\* generic exception, not an order-specific one
RetryableFailure(o) ==
    /\ o.type = "raise"
    /\ o.cls # "BinanceOrderException"
    /\ o.cls = "BinanceAPIException" => BINANCE_ERROR_MAP(o.code) \notin NonRetryableKinds

OrderCall(t) == fn[t] \in {"place_market_order", "place_limit_order"}

\* create-order is never invoked again after a success, an order-specific
\* exception or a rejection that must fail at once
ReinvokedOnlyAfter(t, Allowed(_)) ==
    \A i \in 2..Invocations(t) :
        attempts[t][i].env.type # "none" => Allowed(attempts[t][i - 1].env)

\* at most one trade-executed entry, written for the invocation whose
\* response the caller gets
OneTradeForReturnedOrder(t) ==
    /\ Len(CreateCallsOf(t)) <= FacadeMaxRetries
    /\ Len(TradesOf(t)) <= 1
    /\ \A k \in 1..Len(TradesOf(t)) :
         /\ pc[t] = "SUCCESS"
         /\ TradesOf(t)[k].attempt = Invocations(t)
         /\ TradesOf(t)[k].order_id = result[t].value.orderId
         /\ result[t] = Return(LastAttempt(t).env.value)

\* C27: one place_market_order / place_limit_order call invokes create-order
\* at most three times, again only after an invocation that raised a
\* retryable exchange error or a generic exception, and emits at most one
\* trade-executed entry, for the invocation whose response is returned.
C27_CreateOrderReinvocation ==
    \A t \in Threads :
        OrderCall(t) => (ReinvokedOnlyAfter(t, RetryableFailure) /\ OneTradeForReturnedOrder(t))


Min(a, b) == IF a <= b THEN a ELSE b

\* ----------------------------------------------------------------- C28
CancelCallsOf(t) ==
    SelectSeq(clientCalls, LAMBDA c : c.t = t /\ c.call.method = "futures_cancel_order")

\* every attempt so far reached the exchange's cancel-order, which raised
CancelAlwaysFails(t) ==
    /\ Invocations(t) >= 1
    /\ \A i \in 1..Invocations(t) : attempts[t][i].env.type = "raise"

\* C28: cancel_order retries on every failure of the exchange's cancel-order
\* call, whatever code or exception it is: when the call always fails it is
\* made exactly three times, and the caller gets OrderCancellationError
\* carrying the order id and the symbol.
C28_CancelAlwaysRetries ==
    \A t \in Threads :
        (fn[t] = "cancel_order" /\ CancelAlwaysFails(t))
        => /\ Len(CancelCallsOf(t)) = Invocations(t)
           /\ \A i \in 1..Invocations(t) : attempts[t][i].out.cls = "OrderCancellationError"
           /\ pc[t] = "TERMINAL_FAILURE" => Invocations(t) = FacadeMaxRetries
           /\ (pc[t] \in {"RETRY_WAIT", "TERMINAL_FAILURE"})
              => Len(sleeps[t]) = Min(Invocations(t), FacadeMaxRetries - 1)
           /\ Done(t)
              => /\ pc[t] = "TERMINAL_FAILURE"
                 /\ result[t].kind = "raise"
                 /\ result[t].cls = "OrderCancellationError"
                 /\ result[t].order_id = args[t].order_id
                 /\ result[t].symbol = args[t].symbol

\* an invalid-symbol rejection, which the wrapper alone would raise at
\* once, then an order exception, then a timeout
C28_Witness ==
    \E t \in Threads :
        /\ fn[t] = "cancel_order" /\ pc[t] = "TERMINAL_FAILURE" /\ Invocations(t) = 3
        /\ IsApi(attempts[t][1].env, {-1121})
        /\ attempts[t][2].env = BinanceOrderException
        /\ Len(CancelCallsOf(t)) = 3
        /\ result[t].cls = "OrderCancellationError"
        /\ result[t].order_id = Num(42) /\ result[t].symbol = Str("btcusdt")


\* ----------------------------------------------------------------- C29
\* C29: test_connection never raises and never retries.  It calls
\* get_server_time and then futures_account; if either raises it returns
\* False after that single attempt, without calling futures_account when
\* get_server_time failed; it returns True exactly when both succeed.
C29_TestConnectionNeverRaises ==
    \A t \in Threads :
        (fn[t] = "test_connection" /\ pc[t] # "ATTEMPTING")
        => LET env == attempts[t][1].env
               methods == [i \in 1..Len(CallsOf(t)) |-> CallsOf(t)[i].call.method]
           IN /\ pc[t] = "SUCCESS" /\ Invocations(t) = 1 /\ sleeps[t] = <<>>
              /\ result[t].kind = "return"
              /\ methods = IF env.first.type = "raise" THEN <<"get_server_time">>
                           ELSE <<"get_server_time", "futures_account">>
              /\ result[t].value = (env.first.type = "ok" /\ env.second.type = "ok")

\* get_server_time raised: False after one attempt, no account fetch
C29_Witness ==
    \E t \in Threads :
        /\ fn[t] = "test_connection" /\ pc[t] = "SUCCESS" /\ Invocations(t) = 1
        /\ attempts[t][1].env.first = Exc("TimeoutError")
        /\ Len(CallsOf(t)) = 1
        /\ result[t].value = FALSE


\* ----------------------------------------------------------------- C30
\* C30: with max_retries <= 0 the wrapped operation is never invoked, nothing
\* is slept and the call raises ConnectionError("Max retries exceeded"); so
\* a finished call has invoked the operation at least once exactly when
\* max_retries >= 1.
C30_NoBudgetNoAttempt ==
    \A t \in Threads :
        (Wrapped(t) /\ pc[t] # "idle")
        => /\ cfg[t].max_retries <= 0
              => /\ pc[t] = "TERMINAL_FAILURE"
                 /\ attempts[t] = <<>> /\ sleeps[t] = <<>> /\ CallsOf(t) = <<>>
                 /\ result[t] = Raise("ConnectionError", NoCode, "Max retries exceeded")
           /\ Done(t) => (Invocations(t) >= 1 <=> cfg[t].max_retries >= 1)

C30_Witness ==
    \E t \in Threads :
        /\ fn[t] = "op" /\ cfg[t].max_retries = -1 /\ pc[t] = "TERMINAL_FAILURE"
        /\ attempts[t] = <<>> /\ sleeps[t] = <<>>
        /\ result[t].cls = "ConnectionError"

====
